---- MODULE Spec2Model ----
(***************************************************************************)
(* Model of src/uvp.c: the per-timestep field-update kernels of the 2D     *)
(* Navier-Stokes solver (calculate_dt, calculate_fg, calculate_rs,         *)
(* calculate_uv, calculate_T) and the stencil operators they call.         *)
(*                                                                         *)
(* A double is modelled as an exact rational <<n, d>> in lowest terms with *)
(* d > 0; <<1, 0>> and <<-1, 0>> are the IEEE infinities and <<0, 0>> is   *)
(* NaN, which only a division by zero can produce.                         *)
(***************************************************************************)
EXTENDS Integers, Sequences, FiniteSets, TLC

\* ------------------------------------------------------------------------
\* Bounds of the model
\* ------------------------------------------------------------------------
MaxImax == 2
MaxJmax == 2
MaxCalls == 2

\* ------------------------------------------------------------------------
\* double arithmetic
\* ------------------------------------------------------------------------
RECURSIVE GCD(_, _)
GCD(a, b) == IF b = 0 THEN a ELSE GCD(b, a % b)

AbsInt(n) == IF n < 0 THEN -n ELSE n

SignInt(n) == IF n < 0 THEN -1 ELSE IF n > 0 THEN 1 ELSE 0

Norm(n, d) ==
    IF d = 0 THEN <<SignInt(n), 0>>
    ELSE LET s == IF d < 0 THEN -1 ELSE 1
             g == GCD(AbsInt(n), AbsInt(d))
         IN  <<(s * n) \div g, (s * d) \div g>>

I(n) == <<n, 1>>
Q(n, d) == Norm(n, d)
Zero == I(0)
One == I(1)
Two == I(2)
NaN == <<0, 0>>

IsNaN(a) == a[1] = 0 /\ a[2] = 0
IsFinite(a) == a[2] > 0

Add(a, b) ==
    IF a[2] = 0 \/ b[2] = 0
    THEN IF IsNaN(a) \/ IsNaN(b) THEN NaN
         ELSE IF a[2] = 0 /\ b[2] = 0
              THEN (IF a[1] = b[1] THEN a ELSE NaN)
              ELSE (IF a[2] = 0 THEN a ELSE b)
    ELSE LET g == GCD(a[2], b[2])
         IN  Norm(a[1] * (b[2] \div g) + b[1] * (a[2] \div g), (a[2] \div g) * b[2])

Neg(a) == <<-a[1], a[2]>>
Sub(a, b) == Add(a, Neg(b))

Mul(a, b) ==
    IF a[2] = 0 \/ b[2] = 0
    THEN <<SignInt(a[1]) * SignInt(b[1]), 0>>
    ELSE LET g1 == GCD(AbsInt(a[1]), b[2])
             g2 == GCD(AbsInt(b[1]), a[2])
         IN  <<(a[1] \div g1) * (b[1] \div g2), (a[2] \div g2) * (b[2] \div g1)>>

\* x / 0 is +-infinity for x # 0 and NaN for x = 0
Div(a, b) ==
    IF IsNaN(a) \/ IsNaN(b) THEN NaN
    ELSE IF b[2] = 0 THEN (IF a[2] = 0 THEN NaN ELSE Zero)
    ELSE IF b[1] = 0 THEN <<SignInt(a[1]), 0>>
    ELSE Mul(a, IF b[1] < 0 THEN <<-b[2], -b[1]>> ELSE <<b[2], b[1]>>)

Less(a, b) ==
    /\ ~IsNaN(a) /\ ~IsNaN(b) /\ a # b
    /\ LET g == IF a[2] = 0 \/ b[2] = 0 THEN 1 ELSE GCD(a[2], b[2])
       IN  a[1] * (b[2] \div g) < b[1] * (a[2] \div g)
Leq(a, b) == ~IsNaN(a) /\ ~IsNaN(b) /\ (a = b \/ Less(a, b))

\* <math.h>
fabs(a) == <<AbsInt(a[1]), a[2]>>
fmin(a, b) == IF IsNaN(a) THEN b ELSE IF IsNaN(b) THEN a
              ELSE IF Less(b, a) THEN b ELSE a
pow2(a) == Mul(a, a)

\* ------------------------------------------------------------------------
\* State
\* ------------------------------------------------------------------------
VARIABLES
    par,     \* imax, jmax, dx, dy, Re, Pr, tau, alpha, beta, GX, GY
    dt,      \* the shared time step, written by calculate_dt
    U, V,    \* velocity fields
    F, G,    \* intermediate velocities
    P,       \* pressure
    T,       \* temperature
    RS,      \* right-hand side of the pressure equation
    Flags,   \* cell flags
    phase,   \* the kernel the time loop calls next
    last,    \* the kernel that returned last ("init" before the first call)
    pre,     \* the fields as they were when the last kernel was called
    junk,    \* what the reads outside the arrays returned in the last call
    oob,     \* the indices outside the arrays the last call accessed
    calls    \* number of kernel calls so far

vars == <<par, dt, U, V, F, G, P, T, RS, Flags, phase, last, pre, junk, oob, calls>>

imax == par.imax
jmax == par.jmax

IDom(im) == 0 .. im + 1
JDom(jm) == 0 .. jm + 1
InDomain(i, j) == i \in IDom(imax) /\ j \in JDom(jmax)

Field(im, jm, f(_, _)) == [i \in IDom(im) |-> [j \in JDom(jm) |-> f(i, j)]]

\* ------------------------------------------------------------------------
\* Cell flags (helper.h): a cell's own kind and the kind of its neighbours
\* ------------------------------------------------------------------------
RIGHT == "RIGHT"
LEFT == "LEFT"
TOP == "TOP"
BOTTOM == "BOTTOM"
Directions == {RIGHT, LEFT, TOP, BOTTOM}

isFluid(cell) == cell.fluid
isObstacle(cell) == ~cell.fluid
isNeighbourFluid(cell, dir) == cell.nb[dir]
isNeighbourObstacle(cell, dir) == ~cell.nb[dir]

\* The flag field the external setup builds for a set obs of obstacle cells;
\* a neighbour outside the arrays counts as an obstacle.
makeFlags(im, jm, obs) ==
    LET fluidAt(i, j) == i \in IDom(im) /\ j \in JDom(jm) /\ <<i, j>> \notin obs
    IN  Field(im, jm, LAMBDA i, j :
            [fluid |-> fluidAt(i, j),
             nb |-> [d \in Directions |->
                        CASE d = RIGHT  -> fluidAt(i + 1, j)
                          [] d = LEFT   -> fluidAt(i - 1, j)
                          [] d = TOP    -> fluidAt(i, j + 1)
                          [] d = BOTTOM -> fluidAt(i, j - 1)]])

\* ------------------------------------------------------------------------
\* Stencil operators
\* ------------------------------------------------------------------------
secondDerivativeDx(A, i, j, h) ==
    Div(Add(Sub(A[i - 1][j], Mul(Two, A[i][j])), A[i + 1][j]), Mul(h, h))

secondDerivativeDy(A, i, j, h) ==
    Div(Add(Sub(A[i][j - 1], Mul(Two, A[i][j])), A[i][j + 1]), Mul(h, h))

productDerivativeDx(A, B, i, j, h, al) ==
    Add(Mul(Div(One, h),
            Sub(Mul(Div(Add(A[i][j], A[i][j + 1]), Two),
                    Div(Add(B[i][j], B[i + 1][j]), Two)),
                Mul(Div(Add(A[i - 1][j], A[i - 1][j + 1]), Two),
                    Div(Add(B[i - 1][j], B[i][j]), Two)))),
        Mul(Div(al, h),
            Sub(Mul(Div(fabs(Add(A[i][j], A[i][j + 1])), Two),
                    Div(Sub(B[i][j], B[i + 1][j]), Two)),
                Mul(Div(fabs(Add(A[i - 1][j], A[i - 1][j + 1])), Two),
                    Div(Sub(B[i - 1][j], B[i][j]), Two)))))

productDerivativeDy(A, B, i, j, h, al) ==
    Add(Mul(Div(One, h),
            Sub(Mul(Div(Add(B[i][j], B[i + 1][j]), Two),
                    Div(Add(A[i][j], A[i][j + 1]), Two)),
                Mul(Div(Add(B[i][j - 1], B[i + 1][j - 1]), Two),
                    Div(Add(A[i][j - 1], A[i][j]), Two)))),
        Mul(Div(al, h),
            Sub(Mul(Div(fabs(Add(B[i][j], B[i + 1][j])), Two),
                    Div(Sub(A[i][j], A[i][j + 1]), Two)),
                Mul(Div(fabs(Add(B[i][j - 1], B[i + 1][j - 1])), Two),
                    Div(Sub(A[i][j - 1], A[i][j]), Two)))))

squareDerivativeDx(A, i, j, h, al) ==
    Add(Mul(Div(One, h),
            Sub(pow2(Div(Add(A[i][j], A[i + 1][j]), Two)),
                pow2(Div(Add(A[i - 1][j], A[i][j]), Two)))),
        Mul(Div(al, h),
            Sub(Mul(Div(fabs(Add(A[i][j], A[i + 1][j])), Two),
                    Div(Sub(A[i][j], A[i + 1][j]), Two)),
                Mul(Div(fabs(Add(A[i - 1][j], A[i][j])), Two),
                    Div(Sub(A[i - 1][j], A[i][j]), Two)))))

squareDerivativeDy(A, i, j, h, al) ==
    Add(Mul(Div(One, h),
            Sub(pow2(Div(Add(A[i][j], A[i][j + 1]), Two)),
                pow2(Div(Add(A[i][j - 1], A[i][j]), Two)))),
        Mul(Div(al, h),
            Sub(Mul(Div(fabs(Add(A[i][j], A[i][j + 1])), Two),
                    Div(Sub(A[i][j], A[i][j + 1]), Two)),
                Mul(Div(fabs(Add(A[i][j - 1], A[i][j])), Two),
                    Div(Sub(A[i][j - 1], A[i][j]), Two)))))

\* ------------------------------------------------------------------------
\* calculate_fg
\* ------------------------------------------------------------------------
computeF(Re, GX, al, be, delt, dx, dy, u, v, t, i, j) ==
    Add(u[i][j],
        Mul(delt,
            Add(Sub(Sub(Mul(Div(One, Re),
                            Add(secondDerivativeDx(u, i, j, dx),
                                secondDerivativeDy(u, i, j, dy))),
                        squareDerivativeDx(u, i, j, dx, al)),
                    productDerivativeDy(u, v, i, j, dy, al)),
                Mul(Sub(One, Mul(be, t[i][j])), GX))))

computeG(Re, GY, al, be, delt, dx, dy, u, v, t, i, j) ==
    Add(v[i][j],
        Mul(delt,
            Add(Sub(Sub(Mul(Div(One, Re),
                            Add(secondDerivativeDx(v, i, j, dx),
                                secondDerivativeDy(v, i, j, dy))),
                        productDerivativeDx(u, v, i, j, dx, al)),
                    squareDerivativeDy(v, i, j, dy, al)),
                Mul(Sub(One, Mul(be, t[i][j])), GY))))

\* faulty variant: the obstacle test forgets the right neighbour
fgComputesF_ownCellOnly(i, j) ==
    /\ i \in 1 .. imax - 1 /\ j \in 1 .. jmax
    /\ ~isObstacle(Flags[i][j])

\* the edges on which calculate_fg evaluates the momentum formula
fgComputesF(i, j) ==
    /\ i \in 1 .. imax - 1 /\ j \in 1 .. jmax
    /\ ~(isObstacle(Flags[i][j]) \/ isNeighbourObstacle(Flags[i][j], RIGHT))

fgComputesG(i, j) ==
    /\ i \in 1 .. imax /\ j \in 1 .. jmax - 1
    /\ ~(isObstacle(Flags[i][j]) \/ isNeighbourObstacle(Flags[i][j], TOP))

\* faulty variant: the boundary loop of F forgets the column imax
fgWritesF_leftOnly(i, j) ==
    \/ i = 0 /\ j \in 1 .. jmax
    \/ i \in 1 .. imax - 1 /\ j \in 1 .. jmax

\* faulty variant: the boundary loop of G forgets the row jmax
fgWritesG_bottomOnly(i, j) ==
    \/ i \in 1 .. imax /\ j = 0
    \/ i \in 1 .. imax /\ j \in 1 .. jmax - 1

\* the entries of F and of G that calculate_fg writes
fgWritesF(i, j) ==
    \/ i \in {0, imax} /\ j \in 1 .. jmax
    \/ i \in 1 .. imax - 1 /\ j \in 1 .. jmax

fgWritesG(i, j) ==
    \/ i \in 1 .. imax /\ j \in {0, jmax}
    \/ i \in 1 .. imax /\ j \in 1 .. jmax - 1

fgF(i, j) ==
    IF fgComputesF(i, j)
    THEN computeF(par.Re, par.GX, par.alpha, par.beta, dt, par.dx, par.dy, U, V, T, i, j)
    ELSE IF fgWritesF(i, j) THEN U[i][j]
    ELSE F[i][j]

fgG(i, j) ==
    IF fgComputesG(i, j)
    THEN computeG(par.Re, par.GY, par.alpha, par.beta, dt, par.dx, par.dy, U, V, T, i, j)
    ELSE IF fgWritesG(i, j) THEN V[i][j]
    ELSE G[i][j]

\* the index offsets each stencil operator reads, relative to (i, j)
secondDerivativeDx_reads == {<<-1, 0>>, <<0, 0>>, <<1, 0>>}
secondDerivativeDy_reads == {<<0, -1>>, <<0, 0>>, <<0, 1>>}
productDerivativeDx_reads ==
    {<<0, 0>>, <<0, 1>>, <<-1, 0>>, <<-1, 1>>, <<1, 0>>}
productDerivativeDy_reads ==
    {<<0, 0>>, <<1, 0>>, <<0, -1>>, <<1, -1>>, <<0, 1>>}
squareDerivativeDx_reads == {<<0, 0>>, <<1, 0>>, <<-1, 0>>}
squareDerivativeDy_reads == {<<0, 0>>, <<0, 1>>, <<0, -1>>}

computeF_reads ==
    secondDerivativeDx_reads \cup secondDerivativeDy_reads
    \cup squareDerivativeDx_reads \cup productDerivativeDy_reads \cup {<<0, 0>>}

computeG_reads ==
    secondDerivativeDx_reads \cup secondDerivativeDy_reads
    \cup productDerivativeDx_reads \cup squareDerivativeDy_reads \cup {<<0, 0>>}

Shifted(offsets, i, j) == {<<i + o[1], j + o[2]>> : o \in offsets}

OutOfDomain(S) == {x \in S : ~InDomain(x[1], x[2])}

\* every index calculate_fg reads or writes, in any of its arrays
calculate_fg_accesses ==
    {<<i, jj>> : i \in 1 .. imax, jj \in {0, jmax}}
    \cup {<<ii, j>> : ii \in {0, imax}, j \in 1 .. jmax}
    \cup UNION {IF fgComputesF(i, j) THEN Shifted(computeF_reads, i, j)
                ELSE {<<i, j>>} : i \in 1 .. imax - 1, j \in 1 .. jmax}
    \cup UNION {IF fgComputesG(i, j) THEN Shifted(computeG_reads, i, j)
                ELSE {<<i, j>>} : i \in 1 .. imax, j \in 1 .. jmax - 1}

\* ------------------------------------------------------------------------
\* calculate_rs
\* ------------------------------------------------------------------------
\* faulty variant: the fluid test is missing
rsWrites_allCells(i, j) ==
    i \in 1 .. imax /\ j \in 1 .. jmax

rsWrites(i, j) ==
    i \in 1 .. imax /\ j \in 1 .. jmax /\ isFluid(Flags[i][j])

rsValue(i, j) ==
    Div(Add(Div(Sub(F[i][j], F[i - 1][j]), par.dx),
            Div(Sub(G[i][j], G[i][j - 1]), par.dy)),
        dt)

rsRS(i, j) == IF rsWrites(i, j) THEN rsValue(i, j) ELSE RS[i][j]

calculate_rs_accesses ==
    UNION {IF isFluid(Flags[i][j])
           THEN {<<i, j>>, <<i - 1, j>>, <<i, j - 1>>}
           ELSE {<<i, j>>} : i \in 1 .. imax, j \in 1 .. jmax}

\* ------------------------------------------------------------------------
\* calculate_dt
\* ------------------------------------------------------------------------
\* the entries of U and V the maximum search visits
dtScanned == {<<i, j>> : i \in 0 .. imax, j \in 0 .. jmax}

\* the running maximum of fabs(A[i][j]), started from 0
maxAbs(A) ==
    LET S == {fabs(A[x[1]][x[2]]) : x \in dtScanned} \cup {Zero}
    IN  CHOOSE m \in S : \A y \in S : Leq(y, m)

u_max == maxAbs(U)
v_max == maxAbs(V)

diffusiveBound ==
    Div(Div(Mul(par.Re, par.Pr), Two),
        Add(Div(One, pow2(par.dx)), Div(One, pow2(par.dy))))

\* faulty variant: the convective bound in y is missing
dtMinimum_noY ==
    fmin(diffusiveBound, Div(par.dx, u_max))

\* faulty variant: a zero maximum makes its bound zero
dtMinimum_zeroBound ==
    fmin(diffusiveBound,
         fmin(IF u_max = Zero THEN Zero ELSE Div(par.dx, u_max),
              IF v_max = Zero THEN Zero ELSE Div(par.dy, v_max)))

dtMinimum ==
    fmin(diffusiveBound, fmin(Div(par.dx, u_max), Div(par.dy, v_max)))

dtValue == Mul(par.tau, dtMinimum)

calculate_dt_accesses == dtScanned

\* ------------------------------------------------------------------------
\* calculate_uv
\* ------------------------------------------------------------------------
\* faulty variant: the fluid test forgets the right neighbour
uvUpdatesU_ownCellOnly(i, j) ==
    /\ i \in 1 .. imax - 1 /\ j \in 1 .. jmax
    /\ isFluid(Flags[i][j])

uvUpdatesU(i, j) ==
    /\ i \in 1 .. imax - 1 /\ j \in 1 .. jmax
    /\ isFluid(Flags[i][j]) /\ isNeighbourFluid(Flags[i][j], RIGHT)

uvUpdatesV(i, j) ==
    /\ i \in 1 .. imax /\ j \in 1 .. jmax - 1
    /\ isFluid(Flags[i][j]) /\ isNeighbourFluid(Flags[i][j], TOP)

uvU(p, i, j) ==
    IF uvUpdatesU(i, j)
    THEN Sub(F[i][j], Mul(Div(dt, par.dx), Sub(p[i + 1][j], p[i][j])))
    ELSE U[i][j]

uvV(p, i, j) ==
    IF uvUpdatesV(i, j)
    THEN Sub(G[i][j], Mul(Div(dt, par.dy), Sub(p[i][j + 1], p[i][j])))
    ELSE V[i][j]

calculate_uv_accesses ==
    UNION {IF uvUpdatesU(i, j) THEN {<<i, j>>, <<i + 1, j>>}
           ELSE {<<i, j>>} : i \in 1 .. imax - 1, j \in 1 .. jmax}
    \cup UNION {IF uvUpdatesV(i, j) THEN {<<i, j>>, <<i, j + 1>>}
                ELSE {<<i, j>>} : i \in 1 .. imax, j \in 1 .. jmax - 1}

\* ------------------------------------------------------------------------
\* calculate_T
\* ------------------------------------------------------------------------
\* A[i][j]; a read outside the array returns whatever lies there (g)
rd(A, i, j, g) ==
    IF i \in DOMAIN A /\ j \in DOMAIN A[i] THEN A[i][j] ELSE g

\* the cells calculate_T visits, in the order of its loops
tCells == (imax + 1) * (jmax + 1)
tCellI(k) == k \div (jmax + 1)
tCellJ(k) == k % (jmax + 1)

\* the four alpha-scaled terms of the update
tUpwindX(t, u, i, j, jk) ==
    Sub(Div(Mul(fabs(rd(u, i, j, jk.UV)),
                Add(rd(t, i, j, jk.T), rd(t, i + 1, j, jk.T))), Two),
        Div(Mul(fabs(rd(u, i - 1, j, jk.UV)),
                Add(rd(t, i - 1, j, jk.T), rd(t, i, j, jk.T))), Two))

tUpwindY(t, v, i, j, jk) ==
    Sub(Div(Mul(fabs(rd(v, i, j, jk.UV)),
                Add(rd(t, i, j, jk.T), rd(t, i, j + 1, jk.T))), Two),
        Div(Mul(fabs(rd(v, i, j - 1, jk.UV)),
                Add(rd(t, i, j - 1, jk.T), rd(t, i, j, jk.T))), Two))

tAdvectX(t, u, i, j, jk) ==
    Sub(Div(Mul(rd(u, i, j, jk.UV),
                Add(rd(t, i, j, jk.T), rd(t, i + 1, j, jk.T))), Two),
        Div(Mul(rd(u, i - 1, j, jk.UV),
                Add(rd(t, i - 1, j, jk.T), rd(t, i, j, jk.T))), Two))

tAdvectY(t, v, i, j, jk) ==
    Sub(Div(Mul(rd(v, i, j, jk.UV),
                Add(rd(t, i, j, jk.T), rd(t, i, j + 1, jk.T))), Two),
        Div(Mul(rd(v, i, j - 1, jk.UV),
                Add(rd(t, i, j - 1, jk.T), rd(t, i, j, jk.T))), Two))

tDiffusion(t, i, j, jk) ==
    Add(Div(Add(Sub(rd(t, i + 1, j, jk.T), Mul(Two, rd(t, i, j, jk.T))),
                rd(t, i - 1, j, jk.T)), Mul(par.dx, par.dx)),
        Div(Add(Sub(rd(t, i, j + 1, jk.T), Mul(Two, rd(t, i, j, jk.T))),
                rd(t, i, j - 1, jk.T)), Mul(par.dy, par.dy)))

\* the right-hand side of the assignment to T[i][j], read from the field t
tCell(t, i, j, al, jk) ==
    Add(rd(t, i, j, jk.T),
        Mul(dt,
            Add(Sub(Sub(Sub(Sub(Zero,
                                Mul(Div(One, par.dx), tAdvectX(t, U, i, j, jk))),
                            Mul(Div(Mul(al, One), par.dx), tUpwindX(t, U, i, j, jk))),
                        Mul(Div(One, par.dy), tAdvectY(t, V, i, j, jk))),
                    Mul(Div(Mul(al, One), par.dy), tUpwindY(t, V, i, j, jk))),
                Mul(Div(One, Mul(par.Re, par.Pr)), tDiffusion(t, i, j, jk)))))

\* the field after the cells k, k+1, ... have been assigned in place
RECURSIVE tSweep(_, _, _, _)
tSweep(t, k, al, jk) ==
    IF k >= tCells THEN t
    ELSE LET i == tCellI(k)
             j == tCellJ(k)
             w == tCell(t, i, j, al, jk)
         IN  tSweep([t EXCEPT ![i][j] = w], k + 1, al, jk)

tStencil == {<<0, 0>>, <<1, 0>>, <<-1, 0>>, <<0, 1>>, <<0, -1>>}

calculate_T_accesses ==
    UNION {Shifted(tStencil, i, j) : i \in 0 .. imax, j \in 0 .. jmax}

\* ------------------------------------------------------------------------
\* Inputs
\* ------------------------------------------------------------------------
PatZero(i, j) == Zero
PatOne(i, j) == One
PatA(i, j) == I(((i + 2 * j) % 5) - 2)
PatB(i, j) == I(2 * (((2 * i + j) % 5) - 2))
PatC(i, j) == I((i * j + i) % 3)
PatLinI(i, j) == I(i)
PatThree(i, j) == I(3)
PatMinusThree(i, j) == I(-3)
PatNine(i, j) == I(9)
PatP1(i, j) == I(4 * ((i + j) % 2))
PatP2(i, j) == I(4 * ((i * j) % 2) - 4 * (j % 2))

\* Re, Pr, tau, dx, dy, alpha, beta, GX, GY, and the time step before the
\* first call of calculate_dt
Configs ==
    { [Re |-> I(10), Pr |-> One, tau |-> Q(1, 2), dx |-> Q(1, 10), dy |-> Q(1, 10),
       alpha |-> One, beta |-> Q(1, 2), GX |-> Zero, GY |-> I(-1), dt |-> Q(1, 10)],
      [Re |-> One, Pr |-> Two, tau |-> One, dx |-> One, dy |-> One,
       alpha |-> Q(1, 2), beta |-> Zero, GX |-> One, GY |-> I(-1), dt |-> Q(1, 4)],
      [Re |-> I(10), Pr |-> One, tau |-> Q(1, 2), dx |-> One, dy |-> Q(1, 2),
       alpha |-> One, beta |-> Q(1, 2), GX |-> One, GY |-> Zero, dt |-> Q(1, 2)] }

\* the order in which the time loop calls the kernels
Kernels == <<"calculate_dt", "calculate_fg", "calculate_rs", "calculate_uv", "calculate_T">>
NextKernel(k) ==
    LET n == CHOOSE x \in 1 .. Len(Kernels) : Kernels[x] = k
    IN  Kernels[(n % Len(Kernels)) + 1]

\* the obstacle cells of the geometries
Geometries(im, jm) == { {}, {<<1, 1>>}, {<<im, jm>>} }

\* what a read outside the arrays may return
JunkReads == { [T |-> Zero, UV |-> Zero], [T |-> One, UV |-> I(-1)] }

Snapshot == [U |-> U, V |-> V, F |-> F, G |-> G, T |-> T, RS |-> RS, Flags |-> Flags]

Init ==
    \E im \in 1 .. MaxImax, jm \in 1 .. MaxJmax, c \in Configs,
       uz \in BOOLEAN, vz \in BOOLEAN, tz \in BOOLEAN, fz \in BOOLEAN :
    \E obs \in Geometries(im, jm), k \in 1 .. Len(Kernels) :
        /\ par = [imax |-> im, jmax |-> jm, Re |-> c.Re, Pr |-> c.Pr, tau |-> c.tau,
                  dx |-> c.dx, dy |-> c.dy, alpha |-> c.alpha, beta |-> c.beta,
                  GX |-> c.GX, GY |-> c.GY]
        /\ dt = c.dt
        /\ phase = Kernels[k]
        /\ U = Field(im, jm, LAMBDA i, j : IF uz THEN PatZero(i, j) ELSE PatA(i, j))
        /\ V = Field(im, jm, LAMBDA i, j : IF vz THEN PatZero(i, j) ELSE PatB(i, j))
        /\ T = Field(im, jm, LAMBDA i, j : IF tz THEN PatOne(i, j) ELSE PatC(i, j))
        /\ F = Field(im, jm, LAMBDA i, j : IF fz THEN PatLinI(i, j) ELSE PatThree(i, j))
        /\ G = Field(im, jm, LAMBDA i, j : IF fz THEN PatZero(i, j) ELSE PatMinusThree(i, j))
        /\ P = Field(im, jm, PatZero)
        /\ RS = Field(im, jm, PatNine)
        /\ Flags = makeFlags(im, jm, obs)
        /\ last = "init"
        /\ pre = Snapshot
        /\ junk = [T |-> Zero, UV |-> Zero]
        /\ oob = {}
        /\ calls = 0

CanCall(name) == calls < MaxCalls /\ last # "crashed" /\ phase = name

Called(name, accesses) ==
    /\ last' = name
    /\ phase' = NextKernel(phase)
    /\ pre' = Snapshot
    /\ oob' = OutOfDomain(accesses)
    /\ calls' = calls + 1

\* ------------------------------------------------------------------------
\* The kernels
\* ------------------------------------------------------------------------
calculate_fg ==
    /\ CanCall("calculate_fg")
    /\ F' = Field(imax, jmax, fgF)
    /\ G' = Field(imax, jmax, fgG)
    /\ Called("calculate_fg", calculate_fg_accesses)
    /\ junk' = [T |-> Zero, UV |-> Zero]
    /\ UNCHANGED <<par, dt, U, V, P, T, RS, Flags>>

calculate_rs ==
    /\ CanCall("calculate_rs")
    /\ RS' = Field(imax, jmax, rsRS)
    /\ Called("calculate_rs", calculate_rs_accesses)
    /\ junk' = [T |-> Zero, UV |-> Zero]
    /\ UNCHANGED <<par, dt, U, V, F, G, P, T, Flags>>

calculate_dt ==
    /\ CanCall("calculate_dt")
    /\ dt' = dtValue
    /\ Called("calculate_dt", calculate_dt_accesses)
    /\ junk' = [T |-> Zero, UV |-> Zero]
    /\ UNCHANGED <<par, U, V, F, G, P, T, RS, Flags>>

\* the caller passes the pressure field the solver produced
calculate_uv ==
    /\ CanCall("calculate_uv")
    /\ \E pat \in {1, 2} :
         LET p == Field(imax, jmax, LAMBDA i, j : IF pat = 1 THEN PatP1(i, j) ELSE PatP2(i, j))
         IN  /\ P' = p
             /\ U' = Field(imax, jmax, LAMBDA i, j : uvU(p, i, j))
             /\ V' = Field(imax, jmax, LAMBDA i, j : uvV(p, i, j))
    /\ Called("calculate_uv", calculate_uv_accesses)
    /\ junk' = [T |-> Zero, UV |-> Zero]
    /\ UNCHANGED <<par, dt, F, G, T, RS, Flags>>

\* The reads at index -1 lie outside the arrays: they return some value, or
\* the process is killed by the access.
calculate_T ==
    /\ CanCall("calculate_T")
    /\ \/ \E jk \in JunkReads :
            /\ T' = tSweep(T, 0, par.alpha, jk)
            /\ junk' = jk
            /\ Called("calculate_T", calculate_T_accesses)
       \/ /\ UNCHANGED T
          /\ junk' = [T |-> Zero, UV |-> Zero]
          /\ Called("crashed", calculate_T_accesses)
    /\ UNCHANGED <<par, dt, U, V, F, G, P, RS, Flags>>

Next ==
    \/ calculate_dt
    \/ calculate_fg
    \/ calculate_rs
    \/ calculate_uv
    \/ calculate_T

Spec == Init /\ [][Next]_vars

\* ------------------------------------------------------------------------
\* Properties
\* ------------------------------------------------------------------------
Cells == {<<i, j>> : i \in IDom(imax), j \in JDom(jmax)}

cellIsFluid(i, j) == isFluid(Flags[i][j])

\* internal edges between two fluid cells
FluidEdgeX(i, j) ==
    i \in 1 .. imax - 1 /\ j \in 1 .. jmax /\ cellIsFluid(i, j) /\ cellIsFluid(i + 1, j)

FluidEdgeY(i, j) ==
    i \in 1 .. imax /\ j \in 1 .. jmax - 1 /\ cellIsFluid(i, j) /\ cellIsFluid(i, j + 1)

momentumF(i, j) ==
    computeF(par.Re, par.GX, par.alpha, par.beta, dt, par.dx, par.dy, U, V, T, i, j)

momentumG(i, j) ==
    computeG(par.Re, par.GY, par.alpha, par.beta, dt, par.dx, par.dy, U, V, T, i, j)

\* C1 as stated: after calculate_fg, G[i][0] = V[i][0] and G[i][jmax] =
\* V[i][jmax] for every i in 0 .. imax+1, and F[0][j] = U[0][j] and
\* F[imax][j] = U[imax][j] for every j in 0 .. jmax+1.
C1_Original ==
    last = "calculate_fg" =>
        /\ \A i \in 0 .. imax + 1 : G[i][0] = V[i][0] /\ G[i][jmax] = V[i][jmax]
        /\ \A j \in 0 .. jmax + 1 : F[0][j] = U[0][j] /\ F[imax][j] = U[imax][j]

\* C1 amended: after calculate_fg, G[i][0] = V[i][0] and G[i][jmax] =
\* V[i][jmax] for every i in 1 .. imax, and F[0][j] = U[0][j] and
\* F[imax][j] = U[imax][j] for every j in 1 .. jmax.
C1_BoundaryCopy ==
    last = "calculate_fg" =>
        /\ \A i \in 1 .. imax : G[i][0] = V[i][0] /\ G[i][jmax] = V[i][jmax]
        /\ \A j \in 1 .. jmax : F[0][j] = U[0][j] /\ F[imax][j] = U[imax][j]

C1_Witness ==
    /\ last = "calculate_fg"
    /\ \E j \in 1 .. jmax : pre.F[imax][j] # U[imax][j] /\ F[imax][j] = U[imax][j]
    /\ \E i \in 1 .. imax : pre.G[i][jmax] # V[i][jmax] /\ G[i][jmax] = V[i][jmax]

\* C2: after calculate_fg, on every internal edge an obstacle touches F (G)
\* is the copy of U (V), on every other internal edge it is the value of the
\* momentum formula, and U, V, T are as they were before the call.
C2_ObstacleAdjacency ==
    last = "calculate_fg" =>
        /\ U = pre.U /\ V = pre.V /\ T = pre.T
        /\ \A i \in 1 .. imax - 1, j \in 1 .. jmax :
             IF ~cellIsFluid(i, j) \/ ~cellIsFluid(i + 1, j)
             THEN F[i][j] = U[i][j]
             ELSE F[i][j] = momentumF(i, j)
        /\ \A i \in 1 .. imax, j \in 1 .. jmax - 1 :
             IF ~cellIsFluid(i, j) \/ ~cellIsFluid(i, j + 1)
             THEN G[i][j] = V[i][j]
             ELSE G[i][j] = momentumG(i, j)

C2_Witness ==
    /\ last = "calculate_fg"
    /\ \E i \in 1 .. imax - 1, j \in 1 .. jmax :
         /\ cellIsFluid(i, j) /\ ~cellIsFluid(i + 1, j)
         /\ pre.F[i][j] # U[i][j] /\ F[i][j] = U[i][j]
         /\ momentumF(i, j) # U[i][j]
    /\ \E i \in 1 .. imax - 1, j \in 1 .. jmax :
         FluidEdgeX(i, j) /\ F[i][j] # U[i][j]

\* C3 as stated: after calculate_fg, F = U and G = V at every index of the
\* extended domain that is not an internal edge between two fluid cells.
C3_Original ==
    last = "calculate_fg" =>
        \A x \in Cells :
            /\ ~FluidEdgeX(x[1], x[2]) => F[x[1]][x[2]] = U[x[1]][x[2]]
            /\ ~FluidEdgeY(x[1], x[2]) => G[x[1]][x[2]] = V[x[1]][x[2]]

\* C3 amended: after calculate_fg, F = U at every index with i in 0 .. imax,
\* j in 1 .. jmax that is not an internal edge between two fluid cells, and
\* G = V at every such index with i in 1 .. imax, j in 0 .. jmax; all other
\* entries of F and G keep their prior contents.
C3_CopyOutsideFluidEdges ==
    last = "calculate_fg" =>
        \A x \in Cells :
            LET i == x[1]
                j == x[2]
            IN  /\ IF i \in 0 .. imax /\ j \in 1 .. jmax
                   THEN ~FluidEdgeX(i, j) => F[i][j] = U[i][j]
                   ELSE F[i][j] = pre.F[i][j]
                /\ IF i \in 1 .. imax /\ j \in 0 .. jmax
                   THEN ~FluidEdgeY(i, j) => G[i][j] = V[i][j]
                   ELSE G[i][j] = pre.G[i][j]

C3_Witness ==
    /\ last = "calculate_fg"
    /\ \E i \in 0 .. imax + 1 : F[i][0] # U[i][0]
    /\ \E j \in 0 .. jmax + 1 : G[0][j] # V[0][j]
    /\ \E i \in 1 .. imax : pre.G[i][jmax] # V[i][jmax] /\ G[i][jmax] = V[i][jmax]
    /\ \E i \in 1 .. imax, j \in 1 .. jmax - 1 : ~cellIsFluid(i, j + 1)

\* the maxima and the bounds the time-step claims speak of
scanRange == {<<i, j>> : i \in 0 .. imax, j \in 0 .. jmax}
largestAbs(A) ==
    LET S == {fabs(A[x[1]][x[2]]) : x \in scanRange}
    IN  CHOOSE m \in S : \A y \in S : ~Less(m, y)
uMaxScanned == largestAbs(U)
vMaxScanned == largestAbs(V)
boundDiffusive ==
    Div(Mul(par.Re, par.Pr),
        Mul(Two, Add(Div(One, Mul(par.dx, par.dx)), Div(One, Mul(par.dy, par.dy)))))
boundX == Div(par.dx, uMaxScanned)
boundY == Div(par.dy, vMaxScanned)
least2(a, b) == IF Less(b, a) THEN b ELSE a
least3(a, b, c) == least2(a, least2(b, c))

C5_ZeroVelocity ==
    (last = "calculate_dt" /\ (uMaxScanned = Zero \/ vMaxScanned = Zero)) =>
        /\ IsFinite(dt) /\ dt # Zero
        /\ (uMaxScanned = Zero /\ vMaxScanned # Zero)
             => dt = Mul(par.tau, least2(boundDiffusive, boundY))
        /\ (uMaxScanned # Zero /\ vMaxScanned = Zero)
             => dt = Mul(par.tau, least2(boundDiffusive, boundX))
        /\ (uMaxScanned = Zero /\ vMaxScanned = Zero)
             => dt = Mul(par.tau, boundDiffusive)

C5_Witness ==
    /\ last = "calculate_dt"
    /\ uMaxScanned = Zero /\ vMaxScanned # Zero
    /\ dt = Mul(par.tau, boundY) /\ Less(boundY, boundDiffusive)

\* C6: calculate_rs sets RS[i][j] to
\* (1/dt)*((F[i][j]-F[i-1][j])/dx + (G[i][j]-G[i][j-1])/dy) on the fluid cells
\* with i in 1 .. imax, j in 1 .. jmax and leaves every other entry of RS,
\* and F, G and the flags, unchanged; with dx = dy = 1, F[i][j] = i, G = 0
\* and no obstacle RS is 1/dt on the whole interior.
C6_RhsFrame ==
    last = "calculate_rs" =>
        /\ F = pre.F /\ G = pre.G /\ Flags = pre.Flags
        /\ \A x \in Cells :
             LET i == x[1]
                 j == x[2]
             IN  IF i \in 1 .. imax /\ j \in 1 .. jmax /\ cellIsFluid(i, j)
                 THEN RS[i][j] =
                        Mul(Div(One, dt),
                            Add(Div(Sub(F[i][j], F[i - 1][j]), par.dx),
                                Div(Sub(G[i][j], G[i][j - 1]), par.dy)))
                 ELSE RS[i][j] = pre.RS[i][j]
        /\ ( /\ par.dx = One /\ par.dy = One
             /\ \A x \in Cells : /\ F[x[1]][x[2]] = I(x[1])
                                 /\ G[x[1]][x[2]] = Zero
                                 /\ cellIsFluid(x[1], x[2]) )
           => \A i \in 1 .. imax, j \in 1 .. jmax : RS[i][j] = Div(One, dt)

C6_Witness ==
    /\ last = "calculate_rs"
    /\ \E i \in 1 .. imax, j \in 1 .. jmax :
         ~cellIsFluid(i, j) /\ RS[i][j] = pre.RS[i][j]
    /\ \E i \in 1 .. imax, j \in 1 .. jmax :
         cellIsFluid(i, j) /\ RS[i][j] # pre.RS[i][j] /\ RS[i][j] # Zero

\* C7: calculate_uv sets U[i][j] to F[i][j] - (dt/dx)*(P[i+1][j] - P[i][j])
\* on the internal edges between two fluid cells with i in 1 .. imax-1,
\* j in 1 .. jmax, and V[i][j] to G[i][j] - (dt/dy)*(P[i][j+1] - P[i][j]) on
\* those with i in 1 .. imax, j in 1 .. jmax-1; every other entry of U and V
\* keeps its value, and the updated edges are the edges on which calculate_fg
\* evaluates the momentum formula.
C7_VelocityCorrection ==
    last = "calculate_uv" =>
        \A x \in Cells :
            LET i == x[1]
                j == x[2]
            IN  /\ IF FluidEdgeX(i, j)
                   THEN U[i][j] = Sub(F[i][j],
                                      Mul(Div(dt, par.dx), Sub(P[i + 1][j], P[i][j])))
                   ELSE U[i][j] = pre.U[i][j]
                /\ IF FluidEdgeY(i, j)
                   THEN V[i][j] = Sub(G[i][j],
                                      Mul(Div(dt, par.dy), Sub(P[i][j + 1], P[i][j])))
                   ELSE V[i][j] = pre.V[i][j]
                /\ uvUpdatesU(i, j) <=> fgComputesF(i, j)
                /\ uvUpdatesV(i, j) <=> fgComputesG(i, j)

C7_Witness ==
    /\ last = "calculate_uv"
    /\ \E i \in 1 .. imax - 1, j \in 1 .. jmax :
         /\ cellIsFluid(i, j) /\ ~cellIsFluid(i + 1, j)
         /\ U[i][j] = pre.U[i][j]
         /\ U[i][j] # Sub(F[i][j], Mul(Div(dt, par.dx), Sub(P[i + 1][j], P[i][j])))
    /\ \E i \in 1 .. imax - 1, j \in 1 .. jmax :
         FluidEdgeX(i, j) /\ U[i][j] # pre.U[i][j]
    /\ \E i \in 1 .. imax, j \in 1 .. jmax - 1 :
         FluidEdgeY(i, j) /\ V[i][j] # pre.V[i][j]

\* C8: every array element a kernel reads or writes has both indices inside
\* the extended domain 0 .. imax+1, 0 .. jmax+1; calculate_T never reads at
\* index -1.
C8_AccessesInDomain ==
    last \in {"calculate_fg", "calculate_rs", "calculate_dt", "calculate_uv",
              "calculate_T", "crashed"} => oob = {}

\* C9: after calculate_T every visited cell holds the explicit update
\* computed from the temperature field as it was before the call.
C9_ExplicitUpdate ==
    last = "calculate_T" =>
        \A i \in 0 .. imax, j \in 0 .. jmax :
            T[i][j] = tCell(pre.T, i, j, par.alpha, junk)

\* the alpha-scaled terms in the form of productDerivativeDx/Dy: the absolute
\* transporting velocity times half the difference of T across the face
donorCellX(t, u, i, j, jk) ==
    Sub(Div(Mul(fabs(rd(u, i, j, jk.UV)),
                Sub(rd(t, i, j, jk.T), rd(t, i + 1, j, jk.T))), Two),
        Div(Mul(fabs(rd(u, i - 1, j, jk.UV)),
                Sub(rd(t, i - 1, j, jk.T), rd(t, i, j, jk.T))), Two))

donorCellY(t, v, i, j, jk) ==
    Sub(Div(Mul(fabs(rd(v, i, j, jk.UV)),
                Sub(rd(t, i, j, jk.T), rd(t, i, j + 1, jk.T))), Two),
        Div(Mul(fabs(rd(v, i, j - 1, jk.UV)),
                Sub(rd(t, i, j - 1, jk.T), rd(t, i, j, jk.T))), Two))

\* C10: at every cell calculate_T visits, the alpha-scaled terms it evaluated
\* equal the donor-cell form, so that on a uniform temperature field (the
\* values read outside the array included) the first visited cell gets the
\* value the update yields with alpha = 0.
C10_DonorCellUpwind ==
    last = "calculate_T" =>
        /\ \A i \in 1 .. imax, j \in 1 .. jmax :
             /\ tUpwindX(pre.T, U, i, j, junk) = donorCellX(pre.T, U, i, j, junk)
             /\ tUpwindY(pre.T, V, i, j, junk) = donorCellY(pre.T, V, i, j, junk)
        /\ (\A x \in Cells : pre.T[x[1]][x[2]] = junk.T)
             => T[0][0] = tCell(pre.T, 0, 0, Zero, junk)

====
